---- MODULE Spec2Model ----
(***************************************************************************)
(* Model of lib/spack/spack/build_systems/r.py: the DESCRIPTION parser     *)
(* RBuilder.parse_description and the dependency reconciliation of         *)
(* RBuilder.install.  Text is a sequence of one-character strings, so that *)
(* strip, split, the regular expressions and the sort are computed the way *)
(* the Python code computes them.                                          *)
(***************************************************************************)
EXTENDS Integers, Sequences, FiniteSets, TLC

VARIABLES
    \* ---- parse_description -------------------------------------------
    data,        \* the raw text handed to parse_description
    lines,       \* data.splitlines()
    pos,         \* index of the next line of the for loop (1-based)
    fields,      \* the set of field names seen in the in-progress record
    package,     \* the in-progress record: an insertion-ordered dict
    yielded,     \* the records yielded so far
    pstate,      \* "run" | "done" | "IndexError"
    \* ---- install ------------------------------------------------------
    pycran,          \* whether `import pycran` succeeds
    descs,           \* the records pycran.parse(file.read()) produces
    heap,            \* the Dependency objects of the recipe, by identity
    dependencies,    \* pkg.dependencies: ordered dict when -> {name: Dependency},
                     \* each Dependency held as its identity in heap
    version,         \* pkg.version, the version of the concrete spec
    config,          \* [args, vars]: configure_args() and configure_vars()
    r_deps,          \* list of specifiers
    deps,            \* dict r_spec -> Dependency built from the specifiers
    spack_dependencies,   \* list of the active {name: Dependency} dicts
    merged_dependencies,  \* dict name -> Dependency
    debug,           \* the lines given to tty.debug, in order
    r_calls,         \* the argument lists pkg.module.R was called with
    past,            \* what the earlier calls of install on this package left:
                     \* their tty.debug lines, their R calls and how they ended
    idx,             \* position of the running loop
    pc               \* the statement install is at

pvars == <<data, lines, pos, fields, package, yielded, pstate>>
ivars == <<pycran, descs, heap, dependencies, version, config, r_deps, deps,
           spack_dependencies, merged_dependencies, debug, r_calls, past, idx,
           pc>>
vars == <<data, lines, pos, fields, package, yielded, pstate,
          pycran, descs, heap, dependencies, version, config, r_deps, deps,
          spack_dependencies, merged_dependencies, debug, r_calls, past, idx,
          pc>>

(***************************************************************************)
(* Bounds of the model.                                                    *)
(***************************************************************************)
MaxLines == 3
MaxRules == 2
MaxDescs == 1

(***************************************************************************)
(* Characters and the str methods the code uses.                           *)
(***************************************************************************)
UpperSeq == <<"A","B","C","D","E","F","G","H","I","J","K","L","M",
              "N","O","P","Q","R","S","T","U","V","W","X","Y","Z">>
LowerSeq == <<"a","b","c","d","e","f","g","h","i","j","k","l","m",
              "n","o","p","q","r","s","t","u","v","w","x","y","z">>
DigitSeq == <<"0","1","2","3","4","5","6","7","8","9">>

Range(s) == {s[i] : i \in DOMAIN s}
Min(S) == CHOOSE x \in S : \A y \in S : x <= y
Max(S) == CHOOSE x \in S : \A y \in S : x >= y

IsUpper(c) == c \in Range(UpperSeq)
IsLower(c) == c \in Range(LowerSeq)
IsDigit(c) == c \in Range(DigitSeq)
\* str.isalpha() of one character
IsAlpha(c) == IsUpper(c) \/ IsLower(c)
\* the characters str.strip() removes and \s of a str pattern matches: those
\* of str.isspace().  Besides the blank, \t, \n, \r and \f these are \v
\* (0x0b), the separators 0x1c to 0x1f, 0x85, 0xa0 and U+1680, written here
\* as the characters themselves; the white space from U+2000 on cannot be
\* written in a string of the module and is not a character of the model
Whitespace ==
    {" ", "\t", "\n", "\r", "\f", "", "", "", "", "",
     "", " ", " "}
IsSpace(c) == c \in Whitespace

\* str.lower() of one character and of a string
LowerChar(c) ==
    IF IsUpper(c) THEN LowerSeq[CHOOSE i \in DOMAIN UpperSeq : UpperSeq[i] = c]
    ELSE c
Lower(s) == [i \in DOMAIN s |-> LowerChar(s[i])]

\* str.strip()
Strip(s) ==
    LET keep == {i \in DOMAIN s : ~IsSpace(s[i])}
    IN IF keep = {} THEN <<>> ELSE SubSeq(s, Min(keep), Max(keep))

\* `sep in s` for a one-character sep
Contains(s, sep) == \E i \in DOMAIN s : s[i] = sep
\* index of the first occurrence of sep in s (s contains sep)
FirstIndex(s, sep) == Min({i \in DOMAIN s : s[i] = sep})

\* s.split(sep): every fragment between separators, empty ones included
RECURSIVE Split(_, _)
Split(s, sep) ==
    IF ~Contains(s, sep) THEN <<s>>
    ELSE LET i == FirstIndex(s, sep)
         IN <<SubSeq(s, 1, i - 1)>> \o Split(SubSeq(s, i + 1, Len(s)), sep)

\* sep.join(parts)
RECURSIVE Join(_, _)
Join(parts, sep) ==
    IF parts = <<>> THEN <<>>
    ELSE IF Len(parts) = 1 THEN parts[1]
    ELSE parts[1] \o sep \o Join(Tail(parts), sep)

\* the line boundaries of str.splitlines(): \n, \r, \v (0x0b), \f, the
\* separators 0x1c, 0x1d, 0x1e and 0x85 (U+2028 and U+2029 cannot be written
\* in a string of the module)
LineBreaks == {"\n", "\r", "\f", "", "", "", "", ""}
\* str.splitlines(): \r\n is one boundary; no empty last line
RECURSIVE SplitLines(_)
SplitLines(s) ==
    LET brk == {i \in DOMAIN s : s[i] \in LineBreaks}
    IN IF s = <<>> THEN <<>>
       ELSE IF brk = {} THEN <<s>>
       ELSE LET i == Min(brk)
                n == IF s[i] = "\r" /\ i < Len(s) /\ s[i + 1] = "\n"
                     THEN i + 2 ELSE i + 1
            IN <<SubSeq(s, 1, i - 1)>> \o SplitLines(SubSeq(s, n, Len(s)))

(***************************************************************************)
(* Python dict, insertion ordered: a sequence of [k, v] entries.           *)
(***************************************************************************)
Keys(d) == {d[i].k : i \in DOMAIN d}
HasKey(d, key) == \E i \in DOMAIN d : d[i].k = key
Get(d, key) == d[CHOOSE i \in DOMAIN d : d[i].k = key].v
\* d.setdefault(key, val): the first value of a key stays
PutKeepsFirst(d, key, val) ==
    IF HasKey(d, key) THEN d ELSE Append(d, [k |-> key, v |-> val])
\* d[key] = val: an existing key keeps its position
Put(d, key, val) ==
    IF HasKey(d, key)
    THEN [i \in DOMAIN d |-> IF d[i].k = key THEN [k |-> key, v |-> val] ELSE d[i]]
    ELSE Append(d, [k |-> key, v |-> val])

(***************************************************************************)
(* parse_description (r.py 43-104).                                        *)
(***************************************************************************)
\* line 71: `not line.strip()`
IsBlank(line) == Strip(line) = <<>>

\* lines 75-76: parts = line.split(":", maxsplit=1); field = parts[0].strip()
FieldOf(line) == Strip(SubSeq(line, 1, FirstIndex(line, ":") - 1))

\* ValueOf with the line split at its last colon
ValueAfterLastColon(line) ==
    Strip(SubSeq(line, Max({i \in DOMAIN line : line[i] = ":"}) + 1, Len(line)))

\* line 77: value = str("".join(parts[1:]).strip())
ValueOf(line) == Strip(SubSeq(line, FirstIndex(line, ":") + 1, Len(line)))

\* line 79: field[0] of an empty field raises IndexError
RaisesIndexError(line) == FieldOf(line) = <<>>

\* lines 79-81: a field that does not start with a letter is discarded and
\* the whole line becomes the value
Field(line) == IF ~IsAlpha(FieldOf(line)[1]) THEN <<>> ELSE FieldOf(line)
Value(line) == IF ~IsAlpha(FieldOf(line)[1]) THEN line ELSE ValueOf(line)

\* Appended with a field made up for a record that has none
AppendedCreates(pkg, field_value) ==
    IF pkg # <<>>
    THEN [pkg EXCEPT ![Len(pkg)].v = @ \o field_value]
    ELSE <<[k |-> <<>>, v |-> field_value]>>

\* lines 59-63: append(field_value) adds to the value of the last entry of
\* package, and does nothing when package is empty
Appended(pkg, field_value) ==
    IF pkg # <<>>
    THEN [pkg EXCEPT ![Len(pkg)].v = @ \o field_value]
    ELSE pkg

\* Fragment without the strip
FragmentUntrimmed(text) == <<" ">> \o text

\* lines 97 and 99: the argument of append, f" {text.strip()}"
Fragment(text) == <<" ">> \o Strip(text)

\* NewPackage with the repeated field written into the record in progress
NewPackageInPlace(field, value) == Put(package, field, value)

\* line 86: package = {field: value}
NewPackage(field, value) == <<[k |-> field, v |-> value]>>

\* line 94: package[field] = value.strip()
Inserted(pkg, field, value) == Put(pkg, field, Strip(value))

\* the branch of the loop body a line takes, given the names seen so far
LineKind(line, seen) ==
    IF IsBlank(line) THEN "blank"
    ELSE IF ~Contains(line, ":") THEN "plain"
    ELSE IF RaisesIndexError(line) THEN "IndexError"
    ELSE IF Field(line) # <<>> /\ Field(line) \in seen THEN "repeat"
    ELSE IF Field(line) # <<>> THEN "insert"
    ELSE "fallback"

AtLine == pstate = "run" /\ pos <= Len(lines)

\* lines 71-72: a blank line is skipped
SkipBlank ==
    /\ AtLine
    /\ LineKind(lines[pos], fields) = "blank"
    /\ pos' = pos + 1
    /\ UNCHANGED <<data, lines, fields, package, yielded, pstate>>
    /\ UNCHANGED ivars

\* line 79: the generator dies with IndexError
RaiseIndexError ==
    /\ AtLine
    /\ LineKind(lines[pos], fields) = "IndexError"
    /\ pstate' = "IndexError"
    /\ UNCHANGED <<data, lines, pos, fields, package, yielded>>
    /\ UNCHANGED ivars

\* lines 83-88: a field name seen before ends the record
YieldRecord ==
    /\ AtLine
    /\ LineKind(lines[pos], fields) = "repeat"
    /\ LET line == lines[pos]
           result == package
       IN /\ fields' = {Field(line)}
          /\ package' = NewPackage(Field(line), Value(line))
          /\ yielded' = IF result # <<>> THEN Append(yielded, result) ELSE yielded
    /\ pos' = pos + 1
    /\ UNCHANGED <<data, lines, pstate>>
    /\ UNCHANGED ivars

\* lines 93-95: a new field
InsertField ==
    /\ AtLine
    /\ LineKind(lines[pos], fields) = "insert"
    /\ LET line == lines[pos]
       IN /\ package' = Inserted(package, Field(line), Value(line))
          /\ fields' = fields \union {Field(line)}
    /\ pos' = pos + 1
    /\ UNCHANGED <<data, lines, yielded, pstate>>
    /\ UNCHANGED ivars

\* lines 96-97: a line with a colon and no usable field name
AppendFallback ==
    /\ AtLine
    /\ LineKind(lines[pos], fields) = "fallback"
    /\ package' = Appended(package, Fragment(Value(lines[pos])))
    /\ pos' = pos + 1
    /\ UNCHANGED <<data, lines, fields, yielded, pstate>>
    /\ UNCHANGED ivars

\* lines 98-99: a line with no colon
AppendPlain ==
    /\ AtLine
    /\ LineKind(lines[pos], fields) = "plain"
    /\ package' = Appended(package, Fragment(lines[pos]))
    /\ pos' = pos + 1
    /\ UNCHANGED <<data, lines, fields, yielded, pstate>>
    /\ UNCHANGED ivars

\* lines 103-104: the last record
FinishParse ==
    /\ pstate = "run" /\ pos > Len(lines)
    /\ yielded' = IF package # <<>> THEN Append(yielded, package) ELSE yielded
    /\ pstate' = "done"
    /\ UNCHANGED <<data, lines, pos, fields, package>>
    /\ UNCHANGED ivars

(***************************************************************************)
(* Input texts of the parser.                                              *)
(***************************************************************************)
SeqsUpTo(S, n) == UNION {[1..k -> S] : k \in 0..n}

ParserLines ==
    { <<"A", ":", " ", "x">>,          \* a field
      <<"B", ":", "y", " ">>,          \* a field, value to trim
      <<" ", "A", ":", " ", "z">>,     \* an indented field, name A again
      <<"C", ":", "c", ":", "d">>,     \* a value that holds a colon
      <<" ", "w", " ">>,               \* no colon
      <<" ", "1", ":", "v">>,          \* a colon after a non-alphabetic prefix
      <<":", "x">>,                    \* a colon after nothing
      <<>>,                            \* empty
      <<" ">> }                        \* blank

ParserTexts == {Join(ls, <<"\n">>) : ls \in SeqsUpTo(ParserLines, MaxLines)}

IdleInstall ==
    /\ pycran = FALSE /\ descs = <<>> /\ heap = <<>> /\ dependencies = <<>>
    /\ version = <<>>
    /\ config = [args |-> <<>>, vars |-> <<>>]
    /\ r_deps = <<>> /\ deps = <<>> /\ spack_dependencies = <<>>
    /\ merged_dependencies = <<>> /\ debug = <<>> /\ r_calls = <<>>
    /\ past = <<>>
    /\ idx = 0 /\ pc = "idle"

\* lines 56-57 and 69: the generator before its first line
InitParse ==
    /\ data \in ParserTexts
    /\ lines = SplitLines(data)
    /\ pos = 1
    /\ fields = {}
    /\ package = <<>>
    /\ yielded = <<>>
    /\ pstate = "run"
    /\ IdleInstall

NextParse ==
    \/ SkipBlank
    \/ RaiseIndexError
    \/ YieldRecord
    \/ InsertField
    \/ AppendFallback
    \/ AppendPlain
    \/ FinishParse

SpecParse == InitParse /\ [][NextParse]_vars

(***************************************************************************)
(* install (r.py 105-176): the text operations of lines 118-133.           *)
(***************************************************************************)
\* lines 118 and 120: [d.strip() for d in value.split(",") if d != ""]
Specifiers(value) ==
    LET kept == SelectSeq(Split(value, ","), LAMBDA d : d # <<>>)
    IN [i \in DOMAIN kept |-> Strip(kept[i])]

\* \w of a str pattern, restricted to the characters of the model
WordChars == Range(UpperSeq) \union Range(LowerSeq) \union Range(DigitSeq) \union {"_"}
\* the class [\w_-]
NameChars == WordChars \union {"_", "-"}
\* the class [\d.-]
VersionChars == Range(DigitSeq) \union {".", "-"}
IsNameChar(c) == c \in NameChars
IsVersionChar(c) == c \in VersionChars

\* length of the longest prefix of s made of characters of the class
PrefixLen(s, class) ==
    Min({i \in 1..(Len(s) + 1) : i = Len(s) + 1 \/ s[i] \notin class}) - 1

\* NameMatch without the ^ anchor: the first run of name characters
NameMatchUnanchored(r_dep) ==
    LET at == {i \in DOMAIN r_dep : IsNameChar(r_dep[i])}
    IN IF at = {} THEN <<>>
       ELSE SubSeq(r_dep, Min(at),
                   Min(at) + PrefixLen(SubSeq(r_dep, Min(at), Len(r_dep)), NameChars) - 1)

\* line 125: re.search(r"^[\w_-]+", r_dep); <<>> stands for None (a match
\* holds at least one character)
NameMatch(r_dep) == SubSeq(r_dep, 1, PrefixLen(r_dep, NameChars))

\* line 126: re.search("(?<=[(]).*(?=[)])", r_dep): the leftmost position
\* that follows a "(" and from which a ")" is reached without a line
\* break, up to the last such ")"
ParenEnds(s, i) ==
    {j \in i..Len(s) : s[j] = ")" /\ \A m \in i..(j - 1) : s[m] # "\n"}
ParenStarts(s) ==
    {i \in 2..(Len(s) + 1) : s[i - 1] = "(" /\ ParenEnds(s, i) # {}}
ParenMatch(r_dep) ==
    IF ParenStarts(r_dep) = {} THEN [matched |-> FALSE, text |-> <<>>]
    ELSE LET i == Min(ParenStarts(r_dep))
         IN [matched |-> TRUE,
             text |-> SubSeq(r_dep, i, Max(ParenEnds(r_dep, i)) - 1)]

\* re.sub(op + r"=\s([\d.-]+)", "@\1" + suffix, text) for a one-character
\* op: every match, left to right, is replaced
RECURSIVE VersionSub(_, _, _)
VersionSub(text, op, suffix) ==
    IF text = <<>> THEN <<>>
    ELSE LET n == IF Len(text) >= 4 /\ text[1] = op /\ text[2] = "="
                     /\ IsSpace(text[3])
                  THEN PrefixLen(SubSeq(text, 4, Len(text)), VersionChars)
                  ELSE 0
         IN IF n > 0
            THEN <<"@">> \o SubSeq(text, 4, 3 + n) \o suffix
                 \o VersionSub(SubSeq(text, 4 + n, Len(text)), op, suffix)
            ELSE <<text[1]>> \o VersionSub(Tail(text), op, suffix)

\* SubGreaterEqual without the colon that opens the range
SubGreaterEqualPinned(text) == VersionSub(text, ">", <<>>)

\* line 132: v = re.sub(r">=\s([\d.-]+)", r"@\1:", v[0])
SubGreaterEqual(text) == VersionSub(text, ">", <<":">>)
\* line 133: v = re.sub(r"==\s([\d.-]+)", r"@\1", v)
SubEqual(text) == VersionSub(text, "=", <<>>)

\* line 129: f"r-{p[0].strip().lower()}" if p[0].lower() != "r" else "r"
RSpecName(p) ==
    IF Lower(p) # <<"r">> THEN <<"r", "-">> \o Lower(Strip(p)) ELSE <<"r">>

\* lines 131-136: the text handed to Spec(...)
SpecText(r_dep) ==
    LET v == ParenMatch(r_dep)
    IN IF v.matched
       THEN RSpecName(NameMatch(r_dep)) \o SubEqual(SubGreaterEqual(v.text))
       ELSE RSpecName(NameMatch(r_dep))

(***************************************************************************)
(* Spec, its versions and Dependency (spack.spec, spack.version and        *)
(* spack.dependency): what install needs of them.  A version is a sequence *)
(* of numbers; a version constraint is a range [lo, hi], where lo = <<>>   *)
(* is no lower bound and hi = <<>> is no upper bound.                      *)
(***************************************************************************)
RECURSIVE Number(_)
Number(ds) ==
    IF ds = <<>> THEN 0
    ELSE 10 * Number(SubSeq(ds, 1, Len(ds) - 1))
         + (CHOOSE i \in DOMAIN DigitSeq : DigitSeq[i] = ds[Len(ds)]) - 1

\* the components of a version text, separated by "." or "-"
VersionParts(vt) ==
    Split([i \in DOMAIN vt |-> IF vt[i] = "-" THEN "." ELSE vt[i]], ".")
IsVersionText(vt) ==
    /\ vt # <<>>
    /\ \A i \in DOMAIN vt : IsVersionChar(vt[i])
    /\ \A i \in DOMAIN VersionParts(vt) : VersionParts(vt)[i] # <<>>
ParseVersion(vt) == [i \in DOMAIN VersionParts(vt) |-> Number(VersionParts(vt)[i])]

\* a <= b for versions
RECURSIVE VLe(_, _)
VLe(a, b) ==
    IF a = <<>> THEN TRUE
    ELSE IF b = <<>> THEN FALSE
    ELSE IF a[1] # b[1] THEN a[1] < b[1]
    ELSE VLe(Tail(a), Tail(b))

AnyVersion == [lo |-> <<>>, hi |-> <<>>]
AtLeast(ver) == [lo |-> ver, hi |-> <<>>]
Exactly(ver) == [lo |-> ver, hi |-> ver]

\* whether the constraint accepts the version
Accepts(c, ver) == VLe(c.lo, ver) /\ (c.hi = <<>> \/ VLe(ver, c.hi))
IsEmptyRange(c) == c.hi # <<>> /\ ~VLe(c.lo, c.hi)
\* every version a accepts, b accepts
RangeSubset(a, b) ==
    \/ IsEmptyRange(a)
    \/ /\ VLe(b.lo, a.lo)
       /\ (b.hi = <<>> \/ (a.hi # <<>> /\ VLe(a.hi, b.hi)))
\* the versions both accept
Intersect(a, b) ==
    [lo |-> IF VLe(a.lo, b.lo) THEN b.lo ELSE a.lo,
     hi |-> IF a.hi = <<>> THEN b.hi
            ELSE IF b.hi = <<>> THEN a.hi
            ELSE IF VLe(a.hi, b.hi) THEN a.hi ELSE b.hi]

\* Spec(text): name, name@V: and name@V are read; anything else is a
\* parse error
ParseSpec(text) ==
    LET t == Strip(text)
        n == PrefixLen(t, NameChars)
        rest == Strip(SubSeq(t, n + 1, Len(t)))
        body == SubSeq(rest, 2, Len(rest))
        open == body # <<>> /\ body[Len(body)] = ":"
        vt == IF open THEN SubSeq(body, 1, Len(body) - 1) ELSE body
        bad == [ok |-> FALSE, name |-> <<>>, versions |-> AnyVersion]
    IN IF n = 0 THEN bad
       ELSE IF rest = <<>>
       THEN [ok |-> TRUE, name |-> SubSeq(t, 1, n), versions |-> AnyVersion]
       ELSE IF rest[1] = "@" /\ IsVersionText(vt)
       THEN [ok |-> TRUE, name |-> SubSeq(t, 1, n),
             versions |-> IF open THEN AtLeast(ParseVersion(vt))
                          ELSE Exactly(ParseVersion(vt))]
       ELSE bad

MakeSpec(name, versions) == [name |-> name, versions |-> versions]

\* Spec.satisfies(other) of two abstract specs
Satisfies(a, b) == a.name = b.name /\ RangeSubset(a.versions, b.versions)
\* spec.satisfies(when) of the concrete spec of the package
VersionSatisfies(ver, when) == Accepts(when, ver)
\* Dependency.merge(other): self.spec.constrain(other.spec)
Constrained(a, b) == MakeSpec(a.name, Intersect(a.versions, b.versions))

\* Dependency(pkg, spec, dt.BUILD | dt.RUN)
Dependency(spec) == [spec |-> spec]

(***************************************************************************)
(* install: lines 143-157.                                                 *)
(***************************************************************************)
\* the test as `n in merged_dependencies`: the key is the name of d
KeyIsNameOfDependency(key, d) == key = heap[d].spec.name
\* line 146, `d in merged_dependencies`: the keys are names (str) and d is
\* a Dependency, whose hash and equality are those of object identity, so
\* no key is equal to it
KeyEqualsDependency(key, d) == FALSE
HasDependencyKey(dict, d) == \E i \in DOMAIN dict : KeyEqualsDependency(dict[i].k, d)

\* lines 145-149 for the items of one active dict, in order.  merged holds
\* identities; merge changes the object itself, in hp
RECURSIVE MergeItems(_, _, _)
MergeItems(merged, hp, items) ==
    IF items = <<>> THEN [merged |-> merged, heap |-> hp, err |-> "none"]
    ELSE LET n == items[1].k
             d == items[1].v
         IN IF HasDependencyKey(merged, d)
            THEN IF ~HasKey(merged, n)
                 THEN [merged |-> merged, heap |-> hp, err |-> "KeyError"]
                 ELSE MergeItems(
                        merged,
                        [hp EXCEPT ![Get(merged, n)].spec = Constrained(@, hp[d].spec)],
                        Tail(items))
            ELSE MergeItems(Put(merged, n, d), hp, Tail(items))

\* order of str: by code point, a proper prefix first
CodeOrder == <<" ", "(", ")", ",", "-", ".">> \o DigitSeq \o <<":", "=", ">", "@">>
             \o UpperSeq \o <<"_">> \o LowerSeq
Ord(c) == CHOOSE i \in DOMAIN CodeOrder : CodeOrder[i] = c
RECURSIVE StrLess(_, _)
StrLess(a, b) ==
    IF b = <<>> THEN FALSE
    ELSE IF a = <<>> THEN TRUE
    ELSE IF a[1] # b[1] THEN Ord(a[1]) < Ord(b[1])
    ELSE StrLess(Tail(a), Tail(b))

\* line 152: sorted(deps.keys())
RECURSIVE SortedSet(_)
SortedSet(S) ==
    IF S = {} THEN <<>>
    ELSE LET m == CHOOSE x \in S : \A y \in S \ {x} : StrLess(x, y)
         IN <<m>> \o SortedSet(S \ {m})
Sorted(dict) == SortedSet(Keys(dict))

\* lines 153-157: whether a line is printed for dep
NeedsLine(dep, foreign, merged, hp) ==
    IF HasKey(merged, dep)
    THEN ~Satisfies(hp[Get(merged, dep)].spec, Get(foreign, dep).spec)
    ELSE TRUE

\* lines 155 and 157: the text given to tty.debug
DependsOnLine(spec, ver) == [text |-> "depends_on", spec |-> spec, when |-> ver]
\* line 160
PycranNotice ==
    [text |-> "R package dependency verification requires pycran",
     spec |-> MakeSpec(<<>>, AnyVersion), when |-> <<>>]

\* lines 166-174: the arguments of R
LibDir == <<"l", "i", "b">>
SourcePath == <<"s", "r", "c">>
Token(opt, val) == [opt |-> opt, val |-> val]
RArgs(config_args, config_vars) ==
    <<Token("--vanilla", <<>>), Token("CMD", <<>>), Token("INSTALL", <<>>)>>
    \o (IF config_args # <<>>
        THEN <<Token("--configure-args=", Join(config_args, <<" ">>))>> ELSE <<>>)
    \o (IF config_vars # <<>>
        THEN <<Token("--configure-vars=", Join(config_vars, <<" ">>))>> ELSE <<>>)
    \o <<Token("--library=", LibDir), Token("", SourcePath)>>

(***************************************************************************)
(* install, statement by statement.                                        *)
(***************************************************************************)
Imports == <<"I", "m", "p", "o", "r", "t", "s">>
Depends == <<"D", "e", "p", "e", "n", "d", "s">>

\* lines 110 and 114: pycran is imported
ImportPycran ==
    /\ pc = "start" /\ pycran
    /\ r_deps' = <<>>
    /\ idx' = 1
    /\ pc' = "read"
    /\ UNCHANGED <<past, pycran, descs, heap, dependencies, version, config, deps,
                   spack_dependencies, merged_dependencies, debug, r_calls>>
    /\ UNCHANGED pvars

\* ImportFails with the error left to the caller
ImportFailsRaises ==
    /\ pc = "start" /\ ~pycran
    /\ pc' = "ImportError"
    /\ UNCHANGED <<past, pycran, descs, heap, dependencies, version, config, r_deps, deps,
                   spack_dependencies, merged_dependencies, debug, r_calls, idx>>
    /\ UNCHANGED pvars

\* lines 110 and 159-161: the import fails and the handler reports it
ImportFails ==
    /\ pc = "start" /\ ~pycran
    /\ debug' = Append(debug, PycranNotice)
    /\ pc' = "args"
    /\ UNCHANGED <<past, pycran, descs, heap, dependencies, version, config, r_deps, deps,
                   spack_dependencies, merged_dependencies, r_calls, idx>>
    /\ UNCHANGED pvars

\* lines 116-120: one record of the DESCRIPTION file
ReadDesc ==
    /\ pc = "read" /\ idx <= Len(descs)
    /\ LET desc == descs[idx]
           imports == IF HasKey(desc, Imports)
                      THEN Specifiers(Get(desc, Imports)) ELSE <<>>
           depends == IF HasKey(desc, Depends)
                      THEN Specifiers(Get(desc, Depends)) ELSE <<>>
       IN r_deps' = r_deps \o imports \o depends
    /\ idx' = idx + 1
    /\ UNCHANGED <<past, pycran, descs, heap, dependencies, version, config, deps,
                   spack_dependencies, merged_dependencies, debug, r_calls, pc>>
    /\ UNCHANGED pvars

\* line 123: deps = {}
BeginConvert ==
    /\ pc = "read" /\ idx > Len(descs)
    /\ deps' = <<>>
    /\ idx' = 1
    /\ pc' = "convert"
    /\ UNCHANGED <<past, pycran, descs, heap, dependencies, version, config, r_deps,
                   spack_dependencies, merged_dependencies, debug, r_calls>>
    /\ UNCHANGED pvars

\* lines 125-136: one specifier becomes a Dependency
ConvertDep ==
    /\ pc = "convert" /\ idx <= Len(r_deps)
    /\ NameMatch(r_deps[idx]) # <<>>
    /\ ParseSpec(SpecText(r_deps[idx])).ok
    /\ LET r_spec == RSpecName(NameMatch(r_deps[idx]))
           parsed == ParseSpec(SpecText(r_deps[idx]))
       IN deps' = Put(deps, r_spec,
                      Dependency(MakeSpec(parsed.name, parsed.versions)))
    /\ idx' = idx + 1
    /\ UNCHANGED <<past, pycran, descs, heap, dependencies, version, config, r_deps,
                   spack_dependencies, merged_dependencies, debug, r_calls, pc>>
    /\ UNCHANGED pvars

\* line 128: the assert fails; the handler of line 159 takes ImportError only
RaiseAssertionError ==
    /\ pc = "convert" /\ idx <= Len(r_deps)
    /\ NameMatch(r_deps[idx]) = <<>>
    /\ pc' = "AssertionError"
    /\ UNCHANGED <<past, pycran, descs, heap, dependencies, version, config, r_deps, deps,
                   spack_dependencies, merged_dependencies, debug, r_calls, idx>>
    /\ UNCHANGED pvars

\* lines 134 and 136: Spec(...) rejects the text
RaiseSpecError ==
    /\ pc = "convert" /\ idx <= Len(r_deps)
    /\ NameMatch(r_deps[idx]) # <<>>
    /\ ~ParseSpec(SpecText(r_deps[idx])).ok
    /\ pc' = "SpecError"
    /\ UNCHANGED <<past, pycran, descs, heap, dependencies, version, config, r_deps, deps,
                   spack_dependencies, merged_dependencies, debug, r_calls, idx>>
    /\ UNCHANGED pvars

\* line 139: spack_dependencies = []
BeginCollect ==
    /\ pc = "convert" /\ idx > Len(r_deps)
    /\ spack_dependencies' = <<>>
    /\ idx' = 1
    /\ pc' = "collect"
    /\ UNCHANGED <<past, pycran, descs, heap, dependencies, version, config, r_deps, deps,
                   merged_dependencies, debug, r_calls>>
    /\ UNCHANGED pvars

\* lines 140-142: one entry of pkg.dependencies
CollectActive ==
    /\ pc = "collect" /\ idx <= Len(dependencies)
    /\ spack_dependencies' =
         IF VersionSatisfies(version, dependencies[idx].when)
         THEN Append(spack_dependencies, dependencies[idx].deps)
         ELSE spack_dependencies
    /\ idx' = idx + 1
    /\ UNCHANGED <<past, pycran, descs, heap, dependencies, version, config, r_deps, deps,
                   merged_dependencies, debug, r_calls, pc>>
    /\ UNCHANGED pvars

\* line 143: merged_dependencies = {}
BeginMerge ==
    /\ pc = "collect" /\ idx > Len(dependencies)
    /\ merged_dependencies' = <<>>
    /\ idx' = 1
    /\ pc' = "merge"
    /\ UNCHANGED <<past, pycran, descs, heap, dependencies, version, config, r_deps, deps,
                   spack_dependencies, debug, r_calls>>
    /\ UNCHANGED pvars

\* lines 144-149: the items of one active dict
MergeDeps ==
    /\ pc = "merge" /\ idx <= Len(spack_dependencies)
    /\ LET res == MergeItems(merged_dependencies, heap, spack_dependencies[idx])
       IN /\ merged_dependencies' = res.merged
          /\ heap' = res.heap
          /\ pc' = IF res.err = "none" THEN pc ELSE res.err
    /\ idx' = idx + 1
    /\ UNCHANGED <<past, pycran, descs, dependencies, version, config, r_deps, deps,
                   spack_dependencies, debug, r_calls>>
    /\ UNCHANGED pvars

\* line 152: the loop over sorted(deps.keys()) starts
BeginCompare ==
    /\ pc = "merge" /\ idx > Len(spack_dependencies)
    /\ idx' = 1
    /\ pc' = "compare"
    /\ UNCHANGED <<past, pycran, descs, heap, dependencies, version, config, r_deps, deps,
                   spack_dependencies, merged_dependencies, debug, r_calls>>
    /\ UNCHANGED pvars

\* lines 153-157: one dependency of the DESCRIPTION file
CompareDep ==
    /\ pc = "compare" /\ idx <= Len(Sorted(deps))
    /\ LET dep == Sorted(deps)[idx]
       IN debug' = IF NeedsLine(dep, deps, merged_dependencies, heap)
                   THEN Append(debug, DependsOnLine(Get(deps, dep).spec, version))
                   ELSE debug
    /\ idx' = idx + 1
    /\ UNCHANGED <<past, pycran, descs, heap, dependencies, version, config, r_deps, deps,
                   spack_dependencies, merged_dependencies, r_calls, pc>>
    /\ UNCHANGED pvars

\* lines 163-176: R CMD INSTALL
InvokeR ==
    /\ \/ pc = "args"
       \/ pc = "compare" /\ idx > Len(Sorted(deps))
    /\ r_calls' = Append(r_calls, RArgs(config.args, config.vars))
    /\ pc' = "done"
    /\ UNCHANGED <<past, pycran, descs, heap, dependencies, version, config, r_deps, deps,
                   spack_dependencies, merged_dependencies, debug, idx>>
    /\ UNCHANGED pvars

(***************************************************************************)
(* Inputs of install.                                                      *)
(***************************************************************************)
Entry(key, val) == [k |-> key, v |-> val]
RName == <<"r">>
RX == <<"r", "-", "x">>
RY == <<"r", "-", "y">>

\* values of the Imports field
ImportsValues ==
    { <<"x", " ", "(", ">", "=", " ", "2", ".", "0", ")">>,
      <<"x", ",", " ", "(", ">", "=", " ", "1", ")">>,
      <<"x", " ", "(", ">", " ", "2", ")">> }
\* values of the Depends field
DependsValues ==
    { <<"R", " ", "(", ">", "=", " ", "2", ".", "1", "5", ".", "0", ")">>,
      <<"r">> }

DescSet ==
    {<<Entry(Imports, i)>> : i \in ImportsValues}
    \union {<<Entry(Depends, d)>> : d \in DependsValues}
    \union {<<Entry(Imports, <<"Y", ",", " ", "x", " ", "(", "=", "=", " ", "2", ".", "5", ")">>),
               Entry(Depends, d)>> : d \in DependsValues}

\* the `when` conditions of the recipe: always, @2: and @:1
WhenSet == {AnyVersion, AtLeast(<<2>>), [lo |-> <<>>, hi |-> <<1>>]}

\* the dependencies declared under one condition
DepDictSet ==
    { <<Entry(RX, MakeSpec(RX, AtLeast(<<1, 0>>))),
        Entry(RName, MakeSpec(RName, AtLeast(<<3>>)))>>,
      <<Entry(RX, MakeSpec(RX, AtLeast(<<2, 5>>)))>>,
      <<Entry(RName, MakeSpec(RName, AtLeast(<<3>>))),
        Entry(RY, MakeSpec(RY, AnyVersion))>> }

\* a recipe: conditions, all different, each with its dependencies
Recipes ==
    {r \in SeqsUpTo(WhenSet \X DepDictSet, MaxRules) :
        \A i, j \in DOMAIN r : i # j => r[i][1] # r[j][1]}

\* the Dependency objects of a recipe, in order of declaration
RECURSIVE RecipeHeap(_)
RecipeHeap(r) ==
    IF r = <<>> THEN <<>>
    ELSE RecipeHeap(SubSeq(r, 1, Len(r) - 1))
         \o [j \in DOMAIN r[Len(r)][2] |-> Dependency(r[Len(r)][2][j].v)]
\* pkg.dependencies of a recipe: every Dependency by its place in the heap
RecipeDependencies(r) ==
    [i \in DOMAIN r |->
       [when |-> r[i][1],
        deps |-> [j \in DOMAIN r[i][2] |->
                    Entry(r[i][2][j].k,
                          Len(RecipeHeap(SubSeq(r, 1, i - 1))) + j)]]]

ConfigSet ==
    { [args |-> <<>>, vars |-> <<>>],
      [args |-> << <<"-", "a">>, <<"-", "b">> >>, vars |-> << <<"C", "=", "1">> >>] }

IdleParse ==
    /\ data = <<>> /\ lines = <<>> /\ pos = 1 /\ fields = {} /\ package = <<>>
    /\ yielded = <<>> /\ pstate = "idle"

InitInstall ==
    /\ pycran \in BOOLEAN
    /\ descs \in SeqsUpTo(DescSet, MaxDescs)
    /\ \E r \in Recipes :
         /\ heap = RecipeHeap(r)
         /\ dependencies = RecipeDependencies(r)
    /\ version \in {<<1>>, <<2>>}
    /\ config \in ConfigSet
    /\ r_deps = <<>> /\ deps = <<>> /\ spack_dependencies = <<>>
    /\ merged_dependencies = <<>> /\ debug = <<>> /\ r_calls = <<>>
    /\ past = <<>>
    /\ idx = 0 /\ pc = "start"
    /\ IdleParse

NextInstall ==
    \/ ImportPycran
    \/ ImportFails
    \/ ReadDesc
    \/ BeginConvert
    \/ ConvertDep
    \/ RaiseAssertionError
    \/ RaiseSpecError
    \/ BeginCollect
    \/ CollectActive
    \/ BeginMerge
    \/ MergeDeps
    \/ BeginCompare
    \/ CompareDep
    \/ InvokeR

SpecInstall == InitInstall /\ [][NextInstall]_vars

\* line 105: install is called once more on the same package, after the
\* earlier call returned or raised.  The names local to the call start
\* afresh; the package, its recipe and the Dependency objects of the recipe
\* are the ones the earlier call left
InstallAgain ==
    /\ pc \in {"done", "AssertionError", "SpecError", "KeyError"}
    /\ past = <<>>
    /\ past' = Append(past, [debug |-> debug, r_calls |-> r_calls, pc |-> pc])
    /\ r_deps' = <<>> /\ deps' = <<>> /\ spack_dependencies' = <<>>
    /\ merged_dependencies' = <<>> /\ debug' = <<>> /\ r_calls' = <<>>
    /\ idx' = 0 /\ pc' = "start"
    /\ UNCHANGED <<pycran, descs, heap, dependencies, version, config>>
    /\ UNCHANGED pvars

NextTwice ==
    \/ NextInstall
    \/ InstallAgain

SpecTwice == InitInstall /\ [][NextTwice]_vars

\* records in which an identifier comes more than once, or a value has an
\* empty or a blank fragment between its commas
RepeatingDescs ==
    { \* Depends comes first in the file and names x; Imports names X
      <<Entry(Depends, <<"x", " ", "(", ">", "=", " ", "2", ".", "0", ")">>),
        Entry(Imports, <<"X">>)>>,
      \* x pinned, then X plain, then an empty fragment
      <<Entry(Imports, <<"x", " ", "(", "=", "=", " ", "2", ".", "5", ")",
                         ",", " ", "X", ",">>)>>,
      \* a blank fragment between two names
      <<Entry(Imports, <<"x", ",", " ", ",", " ", "Y">>)>> }

RecordSet == DescSet \union RepeatingDescs

\* install on a DESCRIPTION of two records and a recipe of at most one rule
InitRecords ==
    /\ pycran \in BOOLEAN
    /\ descs \in {<<a, b>> : a \in RecordSet, b \in RecordSet}
    /\ \E r \in {q \in Recipes : Len(q) <= 1} :
         /\ heap = RecipeHeap(r)
         /\ dependencies = RecipeDependencies(r)
    /\ version \in {<<1>>, <<2>>}
    /\ config \in ConfigSet
    /\ r_deps = <<>> /\ deps = <<>> /\ spack_dependencies = <<>>
    /\ merged_dependencies = <<>> /\ debug = <<>> /\ r_calls = <<>>
    /\ past = <<>>
    /\ idx = 0 /\ pc = "start"
    /\ IdleParse

SpecRecords == InitRecords /\ [][NextInstall]_vars

(***************************************************************************)
(* Properties of parse_description.                                        *)
(***************************************************************************)
\* a line with a colon whose trimmed text before the first colon starts
\* with a letter
IsFieldLine(line) ==
    /\ Contains(line, ":")
    /\ Strip(SubSeq(line, 1, FirstIndex(line, ":") - 1)) # <<>>
    /\ IsAlpha(Strip(SubSeq(line, 1, FirstIndex(line, ":") - 1))[1])
FieldName(line) == Strip(SubSeq(line, 1, FirstIndex(line, ":") - 1))
AfterColon(line) == Strip(SubSeq(line, FirstIndex(line, ":") + 1, Len(line)))

\* the record with text added to the value of its last field
WithLast(rec, text) ==
    [i \in DOMAIN rec |->
       IF i = Len(rec) THEN [k |-> rec[i].k, v |-> rec[i].v \o text] ELSE rec[i]]

\* C4: for every input text parse_description ends normally, never with an
\* error; a line whose text before the colon is empty is a continuation.
C4_ParseNeverRaises == pstate # "IndexError"

\* C5: a field line whose name is in the record in progress makes the
\* parser emit that record as it stands, reset the seen names to that name
\* and start a record that holds only that field with the new value; no
\* other line, blank ones included, emits a record before the end of input.
C5_RepeatSplitsRecord ==
    [][ /\ ( /\ AtLine
             /\ IsFieldLine(lines[pos])
             /\ HasKey(package, FieldName(lines[pos])) )
          => /\ yielded' = Append(yielded, package)
             /\ fields' = {FieldName(lines[pos])}
             /\ package' = <<[k |-> FieldName(lines[pos]),
                              v |-> AfterColon(lines[pos])]>>
        /\ ( AtLine /\ yielded' # yielded )
          => /\ IsFieldLine(lines[pos])
             /\ HasKey(package, FieldName(lines[pos])) ]_vars

\* C5 happens: a record was emitted before the end of the input and the
\* repeated field opened the next one.
C5_Witness ==
    /\ pstate = "run"
    /\ Len(yielded) = 1 /\ Len(yielded[1]) = 2
    /\ package = <<[k |-> <<"A">>, v |-> <<"z">>]>>
    /\ fields = {<<"A">>}

\* a continuation line as the claim words it: no colon, or a colon after a
\* text (taken as it stands) that starts with a non-alphabetic character
IsContinuationAsWritten(line) ==
    /\ ~IsBlank(line)
    /\ \/ ~Contains(line, ":")
       \/ /\ FirstIndex(line, ":") > 1
          /\ ~IsAlpha(line[1])

\* a continuation line: no colon, or a colon after a text that, once
\* trimmed, starts with a non-alphabetic character
IsContinuation(line) ==
    /\ ~IsBlank(line)
    /\ \/ ~Contains(line, ":")
       \/ /\ FieldName(line) # <<>>
          /\ ~IsAlpha(FieldName(line)[1])

\* C6 as stated: every continuation line, with the text before the colon
\* taken as it stands, is appended (trimmed, after one space) to the last
\* field of the record in progress and changes nothing else.
C6_AsWritten ==
    [][ ( AtLine /\ IsContinuationAsWritten(lines[pos]) /\ package # <<>> )
          => /\ package' = WithLast(package, <<" ">> \o Strip(lines[pos]))
             /\ yielded' = yielded ]_vars

\* C6, amended: every non-blank line with no colon, or with a colon whose
\* preceding text, trimmed, starts with a non-alphabetic character, is
\* appended (trimmed, after one space) to the value of the most recently
\* inserted field of the record in progress, and changes no other field
\* and no emitted record.
C6_ContinuationAppends ==
    [][ ( AtLine /\ IsContinuation(lines[pos]) /\ package # <<>> )
          => /\ package' = WithLast(package, <<" ">> \o Strip(lines[pos]))
             /\ yielded' = yielded
             /\ fields' = fields ]_vars

\* C6 happens: a continuation was appended to the first field of a record
\* that a repeated name started.
C6_Witness ==
    /\ Len(yielded) = 1
    /\ package = <<[k |-> <<"A">>, v |-> <<"z", " ", "w">>]>>

\* C7: N >= 1 field lines with different names and no blank line give one
\* record of N entries, in input order, each value the trimmed text after
\* the first colon of its line.
C7_DistinctFieldsOneRecord ==
    ( /\ pstate = "done"
      /\ Len(lines) >= 1
      /\ \A i \in DOMAIN lines : IsFieldLine(lines[i])
      /\ \A i, j \in DOMAIN lines : i # j => FieldName(lines[i]) # FieldName(lines[j]) )
    => /\ Len(yielded) = 1
       /\ yielded[1] = [i \in DOMAIN lines |->
                          [k |-> FieldName(lines[i]), v |-> AfterColon(lines[i])]]

\* C7 happens: three fields, one of them with a colon in its value.
C7_Witness ==
    /\ pstate = "done"
    /\ Len(lines) = 3
    /\ \A i \in DOMAIN lines : IsFieldLine(lines[i])
    /\ Len(yielded) = 1 /\ Len(yielded[1]) = 3
    /\ \E i \in 1..3 : yielded[1][i].v = <<"c", ":", "d">>

\* C8: a continuation that arrives while the record in progress has no
\* field is dropped and creates no record; a text with no colon yields
\* nothing.
C8_OrphanContinuationDropped ==
    /\ ( \A i \in 1..(pos - 1) : ~IsFieldLine(lines[i]) )
         => package = <<>> /\ yielded = <<>>
    /\ ( pstate = "done" /\ ~Contains(data, ":") ) => yielded = <<>>

\* C8 happens: a text of continuation lines only has been parsed.
C8_Witness ==
    /\ pstate = "done"
    /\ ~Contains(data, ":")
    /\ Len(lines) = 2
    /\ \A i \in DOMAIN lines : IsContinuation(lines[i])
    /\ yielded = <<>>

(***************************************************************************)
(* Properties of install.                                                  *)
(***************************************************************************)
\* the identities of the active rules of the recipe for a name
ActiveRules(name) ==
    {id \in DOMAIN heap :
       \E i \in DOMAIN dependencies :
          /\ Accepts(dependencies[i].when, version)
          /\ \E j \in DOMAIN dependencies[i].deps :
                dependencies[i].deps[j] = [k |-> name, v |-> id]}
HostNames == {RName, RX, RY}
\* versions on which two constraints are compared
ProbeVersions == {<<0>>, <<1>>, <<1, 0>>, <<2>>, <<2, 0>>, <<2, 5>>, <<2, 15, 0>>,
                  <<3>>, <<4>>}
\* every active rule for the name accepts the version
AllRulesAccept(name, ver) ==
    \A id \in ActiveRules(name) : Accepts(heap[id].spec.versions, ver)
Merging == pycran /\ pc \in {"compare", "done"}

\* C1: for a name with two or more active rules, the constraint compared
\* is the intersection of the constraints of all of them, whatever their
\* order (a version is accepted only if every active rule accepts it).
C1_MergedIsIntersection ==
    Merging =>
      \A name \in HostNames :
         Cardinality(ActiveRules(name)) >= 2 =>
            /\ HasKey(merged_dependencies, name)
            /\ \A ver \in ProbeVersions :
                  Accepts(heap[Get(merged_dependencies, name)].spec.versions, ver)
                  <=> AllRulesAccept(name, ver)

\* the versions the foreign constraint of dep accepts include every
\* version all active rules accept
RulesImply(dep) ==
    \A ver \in ProbeVersions :
       AllRulesAccept(dep, ver) => Accepts(Get(deps, dep).spec.versions, ver)
\* the dependencies of the DESCRIPTION file that are missing or weaker
Flagged == {dep \in Keys(deps) : ActiveRules(dep) = {} \/ ~RulesImply(dep)}

\* C2: after reconciliation, the lines printed are exactly one for each
\* dependency that is missing or weaker than the merge of its active
\* rules, none for a satisfied one, in ascending order of name.
C2_DiagnosticsExact ==
    ( pc = "done" /\ pycran ) =>
       /\ Len(debug) = Cardinality(Flagged)
       /\ {debug[i].spec.name : i \in DOMAIN debug} = Flagged
       /\ \A i \in DOMAIN debug :
             debug[i] = [text |-> "depends_on",
                         spec |-> Get(deps, debug[i].spec.name).spec,
                         when |-> version]
       /\ \A i, j \in DOMAIN debug :
             i < j => StrLess(debug[i].spec.name, debug[j].spec.name)

\* the three forms of a specifier
PlainForm(name) == name
AtLeastForm(name, vt) == name \o <<" ", "(", ">", "=", " ">> \o vt \o <<")">>
EqualForm(name, vt) == name \o <<" ", "(", "=", "=", " ">> \o vt \o <<")">>
\* names and the identifier each is to get
FormNames == { <<"x">>, <<"X">>, <<"Y">>, <<"R">>, <<"r">> }
IdOf(name) ==
    CASE name = <<"x">> -> <<"r", "-", "x">>
      [] name = <<"X">> -> <<"r", "-", "x">>
      [] name = <<"Y">> -> <<"r", "-", "y">>
      [] name = <<"R">> -> <<"r">>
      [] name = <<"r">> -> <<"r">>
\* version texts and the version each stands for
FormVersions == { <<"2", ".", "0">>, <<"2", ".", "5">>, <<"2", ".", "1", "5", ".", "0">> }
VersionOf(vt) ==
    CASE vt = <<"2", ".", "0">> -> <<2, 0>>
      [] vt = <<"2", ".", "5">> -> <<2, 5>>
      [] vt = <<"2", ".", "1", "5", ".", "0">> -> <<2, 15, 0>>
Converted == pc = "convert" /\ idx > 1
Holds(name, versions) ==
    /\ HasKey(deps, IdOf(name))
    /\ Get(deps, IdOf(name)).spec = [name |-> IdOf(name), versions |-> versions]

\* C3: a specifier `name`, `name (>= version)` or `name (== version)` gets
\* the identifier r- and the lower-cased name (r alone for the name R),
\* with a lower bound at the version, a pin to it, or no constraint.
C3_NormalizedSpecifier ==
    Converted =>
      \A name \in FormNames :
         /\ r_deps[idx - 1] = PlainForm(name) => Holds(name, [lo |-> <<>>, hi |-> <<>>])
         /\ \A vt \in FormVersions :
               /\ r_deps[idx - 1] = AtLeastForm(name, vt)
                    => Holds(name, [lo |-> VersionOf(vt), hi |-> <<>>])
               /\ r_deps[idx - 1] = EqualForm(name, vt)
                    => Holds(name, [lo |-> VersionOf(vt), hi |-> VersionOf(vt)])

\* C3 happens: R (>= 2.15.0) has been converted, after a pinned and a plain
\* specifier.
C3_Witness ==
    /\ Converted
    /\ r_deps[idx - 1] = AtLeastForm(<<"R">>, <<"2", ".", "1", "5", ".", "0">>)
    /\ Keys(deps) = {<<"r">>, <<"r", "-", "x">>, <<"r", "-", "y">>}
    /\ Get(deps, <<"r">>).spec.versions = [lo |-> <<2, 15, 0>>, hi |-> <<>>]
    /\ Get(deps, <<"r", "-", "x">>).spec.versions = [lo |-> <<2, 5>>, hi |-> <<2, 5>>]
    /\ Get(deps, <<"r", "-", "y">>).spec.versions = [lo |-> <<>>, hi |-> <<>>]

\* a specifier with no leading name
IsNameless(r_dep) == r_dep = <<>> \/ ~IsNameChar(r_dep[1])
NamelessAt == {i \in DOMAIN r_deps : IsNameless(r_deps[i])}
PastRead == pc \notin {"start", "read", "args", "idle"}

\* C9: with a specifier that has no leading name, install ends in the
\* assertion failure at that specifier (unless an earlier specifier is
\* rejected first), the failure reaches the caller, no line is printed for
\* any dependency and R is not called.
C9_NamelessSpecifierAborts ==
    ( PastRead /\ NamelessAt # {} ) =>
       /\ debug = <<>>
       /\ r_calls = <<>>
       /\ pc \in {"convert", "AssertionError", "SpecError"}
       /\ pc = "convert" => idx <= Min(NamelessAt)
       /\ pc = "SpecError" => idx < Min(NamelessAt)
       /\ pc = "AssertionError" => idx = Min(NamelessAt)

\* C9 happens: the assertion failed at the second specifier, after the
\* first was converted.
C9_Witness ==
    /\ pc = "AssertionError"
    /\ idx = 2
    /\ HasKey(deps, <<"r", "-", "x">>)
    /\ IsNameless(r_deps[2])

\* the arguments R is to get for each configuration
ExpectedArgs ==
    IF config.args = <<>> /\ config.vars = <<>>
    THEN << [opt |-> "--vanilla", val |-> <<>>], [opt |-> "CMD", val |-> <<>>],
            [opt |-> "INSTALL", val |-> <<>>],
            [opt |-> "--library=", val |-> <<"l", "i", "b">>],
            [opt |-> "", val |-> <<"s", "r", "c">>] >>
    ELSE << [opt |-> "--vanilla", val |-> <<>>], [opt |-> "CMD", val |-> <<>>],
            [opt |-> "INSTALL", val |-> <<>>],
            [opt |-> "--configure-args=", val |-> <<"-", "a", " ", "-", "b">>],
            [opt |-> "--configure-vars=", val |-> <<"C", "=", "1">>],
            [opt |-> "--library=", val |-> <<"l", "i", "b">>],
            [opt |-> "", val |-> <<"s", "r", "c">>] >>
Failed == pc \in {"AssertionError", "SpecError", "KeyError"}

\* C10: a missing pycran and missing or weaker dependencies do not block
\* the install: without pycran nothing is reconciled and only the notice
\* is printed, and then, as after a reconciliation that completes, R is
\* called once, after every line, with the arguments of the configuration.
C10_InstallNotBlocked ==
    /\ [] /\ pc # "done" => r_calls = <<>>
          /\ pc = "done" => r_calls = <<ExpectedArgs>>
          /\ ~pycran =>
                /\ pc \in {"start", "args", "done"}
                /\ r_deps = <<>> /\ deps = <<>>
                /\ debug = IF pc = "start" THEN <<>> ELSE <<PycranNotice>>
          /\ pycran => \A i \in DOMAIN debug : debug[i].text = "depends_on"
    /\ [][ /\ pc = "compare" => pc' \in {"compare", "done"}
           /\ pc = "args" => pc' = "done"
           /\ pc = "done" => debug' = debug /\ r_calls' = r_calls ]_vars

\* C10 happens: R was called after a run that printed a line for a weaker
\* and for a missing dependency.
C10_Witness ==
    /\ pc = "done"
    /\ Len(r_calls) = 1
    /\ Len(debug) = 2 /\ Len(deps) = 3
    /\ \E i \in DOMAIN debug : HasKey(merged_dependencies, debug[i].spec.name)
    /\ \E i \in DOMAIN debug : ~HasKey(merged_dependencies, debug[i].spec.name)

(***************************************************************************)
(* Two calls of install in succession.                                     *)
(***************************************************************************)
Ended == pc = "done" \/ Failed

\* C11: a second call of install on the same inputs ends as the first one
\* did, with the same diagnostics in the same order and the same call of R,
\* and no step of either call changes the dependency rules of the recipe
\* or the constraints of their Dependency objects.
C11_SecondRunIdentical ==
    /\ [](past # <<>> /\ Ended =>
            /\ debug = past[1].debug
            /\ r_calls = past[1].r_calls
            /\ pc = past[1].pc)
    /\ [][heap' = heap /\ dependencies' = dependencies]_vars

\* the second call has ended after reconciling a specifier against two
\* active rules of the same name, with a line printed
C11_Witness ==
    /\ past # <<>> /\ pc = "done" /\ pycran
    /\ Len(debug) >= 1
    /\ \E name \in Keys(deps) : Cardinality(ActiveRules(name)) >= 2

(***************************************************************************)
(* The specifiers of several records.                                      *)
(***************************************************************************)
\* the fragments between the commas of a value, trimmed, without those
\* that are empty once trimmed
TrimmedFragments(value) ==
    LET parts == Split(value, ",")
        trimmed == [i \in DOMAIN parts |-> Strip(parts[i])]
    IN SelectSeq(trimmed, LAMBDA f : f # <<>>)
FieldFragments(desc, field) ==
    IF HasKey(desc, field) THEN TrimmedFragments(Get(desc, field)) ELSE <<>>
\* record after record, the fragments of Imports and then those of Depends
RECURSIVE SpecifierSequence(_)
SpecifierSequence(ds) ==
    IF ds = <<>> THEN <<>>
    ELSE SpecifierSequence(SubSeq(ds, 1, Len(ds) - 1))
         \o FieldFragments(ds[Len(ds)], Imports)
         \o FieldFragments(ds[Len(ds)], Depends)
\* what a specifier in one of the three forms stands for
Forms ==
    {[text |-> PlainForm(n), id |-> IdOf(n), versions |-> [lo |-> <<>>, hi |-> <<>>]] :
        n \in FormNames}
    \union
    {[text |-> AtLeastForm(f[1], f[2]), id |-> IdOf(f[1]),
      versions |-> [lo |-> VersionOf(f[2]), hi |-> <<>>]] :
        f \in FormNames \X FormVersions}
    \union
    {[text |-> EqualForm(f[1], f[2]), id |-> IdOf(f[1]),
      versions |-> [lo |-> VersionOf(f[2]), hi |-> VersionOf(f[2])]] :
        f \in FormNames \X FormVersions}
FormOf(r_dep) == CHOOSE f \in Forms : f.text = r_dep
\* how many specifiers have been converted
ConvertedCount == IF pc = "convert" THEN idx - 1 ELSE Len(r_deps)
Converting == pycran /\ pc \in {"convert", "collect", "merge", "compare", "done"}

\* C12: the specifiers are those of Imports and then of Depends, record
\* after record, and of the specifiers converted so far that get the same
\* identifier the mapping holds the constraint of the last one alone,
\* whether or not that one has a constraint.
C12_LaterOccurrenceWins ==
    Converting =>
      LET seq == SubSeq(SpecifierSequence(descs), 1, ConvertedCount)
          last == {i \in DOMAIN seq :
                     \A j \in DOMAIN seq : j > i => FormOf(seq[j]).id # FormOf(seq[i]).id}
      IN /\ SelectSeq(r_deps, LAMBDA d : d # <<>>) = SpecifierSequence(descs)
         /\ Keys(deps) = {FormOf(seq[i]).id : i \in DOMAIN seq}
         /\ \A i \in last :
               Get(deps, FormOf(seq[i]).id).spec =
                 [name |-> FormOf(seq[i]).id, versions |-> FormOf(seq[i]).versions]

\* C12 happens: x (>= 2.0) of the first record, then x (== 2.5) and X of the
\* second; the mapping holds r-x without a constraint.
C12_Witness ==
    /\ pycran /\ pc = "done"
    /\ r_deps = << AtLeastForm(<<"x">>, <<"2", ".", "0">>),
                   EqualForm(<<"x">>, <<"2", ".", "5">>),
                   PlainForm(<<"X">>) >>
    /\ Keys(deps) = {RX}
    /\ Get(deps, RX).spec.versions = [lo |-> <<>>, hi |-> <<>>]

\* C13: the specifiers read from the records are exactly the fragments that
\* are not empty once trimmed, in order, so that no specifier is empty and
\* the assertion never fails at an empty specifier.
C13_BlankFragmentsDropped ==
    ( pycran /\ PastRead ) =>
       /\ r_deps = SpecifierSequence(descs)
       /\ \A i \in DOMAIN r_deps : r_deps[i] # <<>>
       /\ pc = "AssertionError" => r_deps[idx] # <<>>
====
